---- MODULE Spec2Model ----
(***************************************************************************)
(* The bundling pipeline of bundler_logic.py: run_bundling_process drives  *)
(* find_project_root, build_dependency_graph (a FIFO worklist over         *)
(* ImportAnalyzer.find_imports), topological_sort (a recursive depth-first *)
(* traversal, modelled with its call stack) and create_combined_file.      *)
(*                                                                         *)
(* Paths are integers.  1..NumFiles are canonical paths under the project  *)
(* root, path 1 is the entry file; negative numbers are canonical paths    *)
(* outside the root (what Path.resolve() makes of a symlink that sits      *)
(* inside the project and points outside).  The content of a file is       *)
(* fixed the first time the run reads it (variable fs); files are named in *)
(* the order of discovery, so that every project is covered up to a        *)
(* renaming of its files.                                                  *)
(*                                                                         *)
(* Spec is the program as shipped.  SpecAnyResolver is the same pipeline   *)
(* around a resolver that may return any path (variable resolver), the     *)
(* case build_dependency_graph guards against in lines 191-193; with the   *)
(* shipped resolver those lines are never reached, because _resolve_module *)
(* raises ValueError (relative_to in its log lines 111-125) before it      *)
(* returns a path outside the root.  SpecSort is topological_sort and the  *)
(* reordering after it on arbitrary graphs.  SpecRerun repeats the run on  *)
(* the same project.  SpecResolve is one call of _resolve_module for any   *)
(* import statement, SpecRoot one call of find_project_root, and SpecGui   *)
(* (FairSpecGui with the scheduling of threads and timer) the window of    *)
(* main_gui.py around the orchestrator.                                    *)
(*                                                                         *)
(* A Python set has no defined iteration order (str hashes, and so Path    *)
(* hashes, are randomised per process): a dependency set is held as the    *)
(* sequence in which this process iterates it, chosen freely when the set  *)
(* is built.                                                               *)
(***************************************************************************)
EXTENDS Integers, Sequences, FiniteSets, TLC

\* ------------------------------------------------------------------ bounds
NumFiles == 4      \* files under the project root
NumOutside == 1    \* canonical paths outside the project root
MaxSize == 4       \* size of a project: its import statements that name a file,
                   \* plus its files that cannot be parsed or cannot be read
MaxRuns == 2       \* runs over the same project (specification SpecRerun)
SortNodes == 3     \* nodes of the graphs handed to topological_sort alone (SpecSort)
RecursionLimit == 4 \* nested calls of visit the interpreter allows (1000 less the
                   \* callers' frames in CPython), scaled to the projects above

MaxDepth == 3      \* directories between the filesystem root and a file
MaxLevel == 4      \* leading dots of a relative import
MaxGenerations == 3 \* threads start_generation creates
MaxLog == 3        \* lines one run of the orchestrator logs

InProject == 1..NumFiles
OutsidePaths == {0 - i : i \in 1..NumOutside}
Paths == InProject \cup OutsidePaths
Statuses == {"ok", "syntax_error", "unreadable"}
NoFile == [status |-> "unknown", imports |-> {}]

\* ----------------------------------------------------------------- helpers
SeqToSet(s) == {s[i] : i \in 1..Len(s)}

Count(s, x) == Cardinality({i \in 1..Len(s) : s[i] = x})

Before(s, x, y) == \E i, j \in 1..Len(s) : s[i] = x /\ s[j] = y /\ i < j

RECURSIVE DistinctSeqs(_, _)
\* every sequence of at most n pairwise different elements of S
DistinctSeqs(S, n) ==
    IF n <= 0 \/ S = {} THEN {<<>>}
    ELSE {<<>>} \cup UNION {{<<x>> \o t : t \in DistinctSeqs(S \ {x}, n - 1)} : x \in S}

\* the ways one process may iterate the set S
Orders(S) == {s \in DistinctSeqs(S, Cardinality(S)) : Len(s) = Cardinality(S)}

\* ------------------------------------------------------------------- state
VARIABLES
    fs,               \* path -> what the file holds, NoFile until first read
    entryExists,      \* main_path.is_file()
    resolver,         \* "shipped": ImportAnalyzer as written; "any": any resolver
    pc,               \* position in run_bundling_process
    ret,              \* "none", "True" or "False": the value returned
    log,              \* lines given to progress_callback (their kinds)
    project_root,     \* "none" until find_project_root returned
    graph,            \* the dict: sequence of [file, deps] in insertion order
    all_files,        \* build_dependency_graph: all_files
    queue,            \* build_dependency_graph: queue
    bvisited,         \* build_dependency_graph: visited
    result,           \* topological_sort: result
    visited,          \* topological_sort: visited
    temp_visited,     \* topological_sort: temp_visited
    edges_in_cycles,  \* topological_sort: edges_in_cycles
    stack,            \* open calls of visit: [node, i] = next neighbour index
    ki,               \* topological_sort: position of `for node in graph`
    extracted,        \* how often find_imports ran for each path
    sorted_files,     \* run_bundling_process: sorted_files after line 343
    outfile,          \* blocks written to the output file
    outDir,           \* the output's parent directory was created
    outFile,          \* the output file was created
    wi,               \* create_combined_file: position of `for file_path in sorted_files`
    ioFault,          \* the I/O faults the environment produced in this run
    run,              \* number of the current run over this project
    prevOrder,        \* final order of the previous run, <<>> before it
    specifier,        \* _resolve_module: the import it is called for, and what the
                      \* file system and the runtime hold for it
    resolved,         \* _resolve_module: "pending", or how the call ended
    startDir,         \* find_project_root: directory of start_path
    markerDirs,       \* find_project_root: the ancestors that hold a marker
    faultDir,         \* find_project_root: the ancestor whose probe raises OSError
    current_dir,      \* find_project_root: current_dir
    found_root,       \* find_project_root: "pending", "raised", or the directory returned
    is_processing,    \* CodeBundlerApp.is_processing
    message_queue,    \* CodeBundlerApp.message_queue
    worker,           \* state of each thread start_generation created
    logsLeft,         \* lines the orchestrator of each thread has still to log
    started,          \* number of threads start_generation created
    timer             \* root.after(100, check_queue) is pending

pipelineVars ==
    <<fs, entryExists, resolver, pc, ret, log, project_root, graph, all_files, queue,
      bvisited, result, visited, temp_visited, edges_in_cycles, stack, ki,
      extracted, sorted_files, outfile, outDir, outFile, wi, ioFault, run, prevOrder>>

resolveVars == <<specifier, resolved>>
rootVars == <<startDir, markerDirs, faultDir, current_dir, found_root>>
guiVars == <<is_processing, message_queue, worker, logsLeft, started, timer>>

\* what a run of run_bundling_process on its own leaves alone
outerVars == <<resolveVars, rootVars, guiVars>>

vars == <<pipelineVars, outerVars>>

projectVars == <<fs, entryExists, resolver>>
buildVars == <<all_files, queue, bvisited, extracted>>
sortVars == <<result, visited, temp_visited, edges_in_cycles, stack, ki>>
writeVars == <<outfile, outDir, outFile, wi>>
rerunVars == <<run, prevOrder>>

main_path == 1

\* Path.is_relative_to(project_root) on a canonical path
UnderRoot(p) == p \in InProject

\* ------------------------------------------------------------ the dict graph
KeySet(g) == {g[i].file : i \in 1..Len(g)}

\* graph.get(node, set()), as the sequence in which the set is iterated
Deps(g, node) ==
    IF node \in KeySet(g) THEN g[CHOOSE i \in 1..Len(g) : g[i].file = node].deps
    ELSE <<>>

DepSet(g, node) == SeqToSet(Deps(g, node))

\* graph[current_file] = dependencies
SetItem(g, f, deps) ==
    IF f \in KeySet(g)
    THEN [i \in 1..Len(g) |-> IF g[i].file = f THEN [file |-> f, deps |-> deps] ELSE g[i]]
    ELSE Append(g, [file |-> f, deps |-> deps])

\* ------------------------------------------------------------ the project
\* paths the files read so far name in their import statements
Referenced == {main_path} \cup UNION {fs[p].imports : p \in Paths}

\* the import statements of the files read so far that name a file
EdgesUsed(f) == Cardinality({e \in Paths \X Paths : e[2] \in f[e[1]].imports})

BadFiles(f) == {p \in Paths : f[p].status \in {"syntax_error", "unreadable"}}

ProjectSize(f) == EdgesUsed(f) + Cardinality(BadFiles(f))

\* Files are numbered in the order the run meets them: an import names a
\* path already met, or the next unused number, in or outside the project.
FreshInOrder(I, met) ==
    /\ \A p \in I \cap InProject : p \in met \/ p - 1 \in met \cup I
    /\ \A p \in I \cap OutsidePaths : p \in met \/ p = 0 - 1 \/ p + 1 \in met \cup I

\* what file p may hold when the run reads it for the first time
Contents(p) ==
    LET size == ProjectSize(fs)
        met == Referenced
        imports == {I \in SUBSET Paths :
                       Cardinality(I) + size <= MaxSize /\ FreshInOrder(I, met)}
    IN  IF p = main_path /\ ~entryExists
        THEN {[status |-> "unreadable", imports |-> {}]}
        ELSE {[status |-> "ok", imports |-> I] : I \in imports}
             \cup {[status |-> "syntax_error", imports |-> I] :
                      I \in {J \in imports : Cardinality(J) + size < MaxSize}}
             \cup (IF size < MaxSize THEN {[status |-> "unreadable", imports |-> {}]} ELSE {})

\* ------------------------------------------------- ImportAnalyzer.find_imports
\* The set find_imports returns for a file holding c: the resolved local
\* paths of its import statements, or set() when the file cannot be opened
\* or parsed.
\* lines 154-169.  With the shipped resolver an import that resolves outside
\* the root raises ValueError in _resolve_module (lines 110-125), which
\* line 167 catches: the file then has no dependencies at all.
FindImports(c, r) ==
    IF c.status # "ok" THEN {}
    ELSE IF r = "shipped" /\ \E p \in c.imports : ~UnderRoot(p) THEN {}
    ELSE c.imports

\* the error line find_imports logs, if any (lines 161-169)
FindImportsError(c, r) ==
    IF c.status # "ok" THEN <<"error_" \o c.status>>
    ELSE IF r = "shipped" /\ \E p \in c.imports : ~UnderRoot(p) THEN <<"error_unexpected">>
    ELSE <<>>

\* ------------------------------------------------- outside one run
NoSpecifier == [named |-> TRUE, level |-> 0, fileDir |-> 0, rootDir |-> 0,
                runtime |-> "not_found", modAt |-> {}, pkgAt |-> {}, linkOutside |-> FALSE]

\* no call of _resolve_module on its own
ResolveIdle ==
    /\ specifier = NoSpecifier
    /\ resolved = [res |-> "idle", dir |-> 0, kind |-> "none"]

\* no call of find_project_root on its own
RootIdle ==
    /\ startDir = 0
    /\ markerDirs = {}
    /\ faultDir = 0 - 1
    /\ current_dir = 0
    /\ found_root = [state |-> "idle", dir |-> 0]

\* no window
GuiIdle ==
    /\ is_processing = FALSE
    /\ message_queue = <<>>
    /\ worker = [k \in 1..MaxGenerations |-> "unstarted"]
    /\ logsLeft = [k \in 1..MaxGenerations |-> 0]
    /\ started = 0
    /\ timer = FALSE

OuterIdle == ResolveIdle /\ RootIdle /\ GuiIdle

\* --------------------------------------------------------- run_bundling_process
Init ==
    /\ OuterIdle
    /\ fs = [p \in Paths |-> NoFile]
    /\ entryExists \in BOOLEAN
    /\ resolver = "shipped"
    /\ pc = "start"
    /\ ret = "none"
    /\ log = <<>>
    /\ project_root = "none"
    /\ graph = <<>>
    /\ all_files = {}
    /\ queue = <<>>
    /\ bvisited = {}
    /\ result = <<>>
    /\ visited = {}
    /\ temp_visited = {}
    /\ edges_in_cycles = <<>>
    /\ stack = <<>>
    /\ ki = 1
    /\ extracted = [p \in Paths |-> 0]
    /\ sorted_files = <<>>
    /\ outfile = <<>>
    /\ outDir = FALSE
    /\ outFile = FALSE
    /\ wi = 1
    /\ ioFault = {}
    /\ run = 1
    /\ prevOrder = <<>>

EntryIsFileUnchecked == TRUE

\* main_path.is_file()
EntryIsFile == entryExists

\* lines 294-300: the entry file must exist
CheckEntry ==
    /\ pc = "start"
    /\ IF EntryIsFile
       THEN /\ log' = Append(log, "starting")
            /\ pc' = "root"
            /\ ret' = ret
       ELSE /\ log' = log \o <<"starting", "error_main_not_found">>
            /\ pc' = "done"
            /\ ret' = "False"
    /\ UNCHANGED <<projectVars, project_root, graph, buildVars, sortVars,
                   sorted_files, writeVars, ioFault, rerunVars, outerVars>>

\* lines 302-311: find_project_root, called outside every try block; the
\* marker probes (Path.exists) raise OSError on a fault of the file system
LocateRoot ==
    /\ pc = "root"
    /\ \E fault \in BOOLEAN :
         IF fault
         THEN /\ ioFault' = ioFault \cup {"root"}
              /\ pc' = "raised"
              /\ UNCHANGED <<project_root, log>>
         ELSE /\ project_root' = "root"
              /\ log' = Append(log, "detected_root")
              /\ pc' = "build_start"
              /\ ioFault' = ioFault
    /\ UNCHANGED <<projectVars, ret, graph, buildVars, sortVars, sorted_files,
                   writeVars, rerunVars, outerVars>>

\* lines 180-185
BuildStart ==
    /\ pc = "build_start"
    /\ log' = Append(log, "building")
    /\ graph' = <<>>
    /\ all_files' = {}
    /\ queue' = <<main_path>>
    /\ bvisited' = {}
    /\ pc' = "build"
    /\ UNCHANGED <<projectVars, ret, project_root, extracted, sortVars, sorted_files,
                   writeVars, ioFault, rerunVars, outerVars>>

PeekLeft(q) == q

\* line 188: queue.popleft() leaves the rest of the queue
PopLeft(q) == Tail(q)

\* lines 188-190: a path already visited is dropped
BuildSkipVisited ==
    /\ pc = "build"
    /\ queue # <<>>
    /\ Head(queue) \in bvisited
    /\ queue' = PopLeft(queue)
    /\ UNCHANGED <<projectVars, pc, ret, log, project_root, graph, all_files, bvisited,
                   extracted, sortVars, sorted_files, writeVars, ioFault, rerunVars, outerVars>>

\* lines 191-193: a path outside the project root is dropped
BuildSkipOutside ==
    /\ pc = "build"
    /\ queue # <<>>
    /\ Head(queue) \notin bvisited
    /\ ~UnderRoot(Head(queue))
    /\ queue' = PopLeft(queue)
    /\ log' = Append(log, "skip_outside")
    /\ UNCHANGED <<projectVars, pc, ret, project_root, graph, all_files, bvisited,
                   extracted, sortVars, sorted_files, writeVars, ioFault, rerunVars, outerVars>>

EnqueueVisited(q, deps, seen) == q \o SelectSeq(deps, LAMBDA d : d \in seen)

\* lines 201-203: enqueue, in iteration order, what is not yet visited
Enqueue(q, deps, seen) == q \o SelectSeq(deps, LAMBDA d : d \notin seen)

\* lines 195-203: analyse the file and enqueue its dependencies
BuildProcess ==
    /\ pc = "build"
    /\ queue # <<>>
    /\ LET current_file == Head(queue) IN
       /\ current_file \notin bvisited
       /\ UnderRoot(current_file)
       /\ bvisited' = bvisited \cup {current_file}
       /\ all_files' = all_files \cup {current_file}
       /\ extracted' = [extracted EXCEPT ![current_file] = @ + 1]
       /\ \E c \in (IF fs[current_file] = NoFile THEN Contents(current_file)
                    ELSE {fs[current_file]}) :
            /\ fs' = [fs EXCEPT ![current_file] = c]
            /\ log' = log \o FindImportsError(c, resolver)
            /\ \E dependencies \in Orders(FindImports(c, resolver)) :
                 /\ graph' = SetItem(graph, current_file, dependencies)
                 /\ queue' = Enqueue(PopLeft(queue), dependencies, bvisited')
    /\ UNCHANGED <<entryExists, resolver, pc, ret, project_root, sortVars, sorted_files,
                   writeVars, ioFault, rerunVars, outerVars>>

\* lines 187, 205-206, 316-320: the worklist is empty
BuildDone ==
    /\ pc = "build"
    /\ queue = <<>>
    /\ log' = log \o <<"graph_built", "identified_files">>
    /\ pc' = "sort_start"
    /\ UNCHANGED <<projectVars, ret, project_root, graph, buildVars, sortVars,
                   sorted_files, writeVars, ioFault, rerunVars, outerVars>>

\* ------------------------------------------------------------ topological_sort
CycleSourcesReversed(g, temp, node) == {t \in temp : t \in DepSet(g, node)}

\* lines 224-226: the in-progress nodes whose dependency set holds `node`
CycleSources(g, temp, node) == {t \in temp : node \in DepSet(g, t)}

PreOrder(res, node) == <<node>> \o res

\* line 238: result.append(node)
PostOrder(res, node) == Append(res, node)

\* visit(node), lines 220-231, entered with the callers' frames in `frames`.
\* A call nested deeper than the interpreter allows raises RecursionError,
\* which leaves topological_sort and is caught in lines 350-354.
Call(node, frames) ==
    IF Len(frames) >= RecursionLimit
    THEN /\ stack' = <<>>
         /\ pc' = "done"
         /\ ret' = "False"
         /\ log' = Append(log, "error_sort")
         /\ UNCHANGED <<temp_visited, edges_in_cycles>>
    ELSE /\ UNCHANGED <<pc, ret, log>>
         /\ IF node \in temp_visited
            THEN /\ \E srcs \in Orders(CycleSources(graph, temp_visited, node)) :
                      edges_in_cycles' =
                          edges_in_cycles \o [i \in 1..Len(srcs) |-> <<srcs[i], node>>]
                 /\ stack' = frames
                 /\ UNCHANGED temp_visited
            ELSE IF node \in visited
            THEN /\ stack' = frames
                 /\ UNCHANGED <<temp_visited, edges_in_cycles>>
            ELSE /\ temp_visited' = temp_visited \cup {node}
                 /\ stack' = Append(frames, [node |-> node, i |-> 1])
                 /\ UNCHANGED edges_in_cycles

otherVarsSort == <<projectVars, project_root, graph, buildVars,
                   sorted_files, writeVars, ioFault, rerunVars, outerVars>>

\* lines 215-218, 329
SortStart ==
    /\ pc = "sort_start"
    /\ result' = <<>>
    /\ visited' = {}
    /\ temp_visited' = {}
    /\ edges_in_cycles' = <<>>
    /\ stack' = <<>>
    /\ ki' = 1
    /\ pc' = "sort"
    /\ UNCHANGED <<ret, log>>
    /\ UNCHANGED otherVarsSort

\* lines 240-242: the next key of the dict
SortNextKey ==
    /\ pc = "sort"
    /\ stack = <<>>
    /\ ki <= Len(graph)
    /\ ki' = ki + 1
    /\ IF graph[ki].file \notin visited
       THEN Call(graph[ki].file, <<>>)
       ELSE UNCHANGED <<stack, temp_visited, edges_in_cycles, pc, ret, log>>
    /\ UNCHANGED <<result, visited>>
    /\ UNCHANGED otherVarsSort

\* lines 233-234: the next neighbour of the node on top of the stack
VisitNeighbor ==
    /\ pc = "sort"
    /\ stack # <<>>
    /\ LET top == stack[Len(stack)]
           neighbors == Deps(graph, top.node)
       IN /\ top.i <= Len(neighbors)
          /\ Call(neighbors[top.i], [stack EXCEPT ![Len(stack)].i = @ + 1])
    /\ UNCHANGED <<result, visited, ki>>
    /\ UNCHANGED otherVarsSort

\* lines 236-238: every neighbour was visited
VisitFinish ==
    /\ pc = "sort"
    /\ stack # <<>>
    /\ LET top == stack[Len(stack)] IN
       /\ top.i > Len(Deps(graph, top.node))
       /\ temp_visited' = temp_visited \ {top.node}
       /\ visited' = visited \cup {top.node}
       /\ result' = PostOrder(result, top.node)
       /\ stack' = SubSeq(stack, 1, Len(stack) - 1)
    /\ UNCHANGED <<pc, ret, log, edges_in_cycles, ki>>
    /\ UNCHANGED otherVarsSort

\* line 244
SortReturn ==
    /\ pc = "sort"
    /\ stack = <<>>
    /\ ki > Len(graph)
    /\ pc' = "order"
    /\ UNCHANGED <<ret, log>>
    /\ UNCHANGED sortVars
    /\ UNCHANGED otherVarsSort

\* ----------------------------------------------- run_bundling_process, step 3
Remove(s, x) ==
    IF x \in SeqToSet(s)
    THEN LET k == CHOOSE i \in 1..Len(s) : s[i] = x /\ \A j \in 1..(i - 1) : s[j] # x
         IN SubSeq(s, 1, k - 1) \o SubSeq(s, k + 1, Len(s))
    ELSE s

EntryLeftInPlace(order, entry) == IF entry \in SeqToSet(order) THEN order ELSE Append(order, entry)

EntryAppendedOnly(order, entry) == Append(order, entry)

\* lines 341-343: the entry file is moved to the end
ForceEntryLast(order, entry) == Append(Remove(order, entry), entry)

CycleNodes(edges) == UNION {{edges[i][1], edges[i][2]} : i \in 1..Len(edges)}

\* lines 330-354: report the cycles, force the entry file last, list the
\* order; Path.relative_to raises ValueError for a path outside the root
ReportOrder ==
    /\ pc = "order"
    /\ LET cyclesRaise == \E n \in CycleNodes(edges_in_cycles) : ~UnderRoot(n)
           final == ForceEntryLast(result, main_path)
           orderRaise == \E i \in 1..Len(final) : ~UnderRoot(final[i])
           head == <<"sort_complete",
                     IF edges_in_cycles # <<>> THEN "cycles_warning" ELSE "no_cycles">>
       IN IF cyclesRaise
          THEN /\ sorted_files' = result
               /\ log' = log \o head \o <<"error_sort">>
               /\ ret' = "False"
               /\ pc' = "done"
          ELSE /\ sorted_files' = final
               /\ IF orderRaise
                  THEN /\ log' = log \o head \o <<"file_order", "error_sort">>
                       /\ ret' = "False"
                       /\ pc' = "done"
                  ELSE /\ log' = log \o head \o <<"file_order">>
                       /\ ret' = ret
                       /\ pc' = "write"
    /\ UNCHANGED <<projectVars, project_root, graph, buildVars, sortVars, writeVars,
                   ioFault, rerunVars, outerVars>>

\* ------------------------------------------------------- create_combined_file
\* lines 254-259, 278-283, 357-363: create the parent directory and open the
\* output; either may fail, and the failure is caught by run_bundling_process
WriteOpen ==
    /\ pc = "write"
    /\ \E outcome \in {"ok", "mkdir_fails", "open_fails"} :
         /\ outDir' = (outDir \/ outcome # "mkdir_fails")
         /\ outFile' = (outFile \/ outcome = "ok")
         /\ outfile' = IF outcome = "ok" THEN <<>> ELSE outfile
         /\ ioFault' = IF outcome = "ok" THEN ioFault ELSE ioFault \cup {outcome}
         /\ log' = CASE outcome = "ok" -> Append(log, "writing")
                     [] outcome = "mkdir_fails" ->
                            log \o <<"writing", "error_creating_combined">>
                     [] outcome = "open_fails" ->
                            log \o <<"writing", "error_write_output", "error_creating_combined">>
         /\ ret' = IF outcome = "ok" THEN ret ELSE "False"
         /\ pc' = IF outcome = "ok" THEN "write_files" ELSE "done"
    /\ wi' = 1
    /\ UNCHANGED <<projectVars, project_root, graph, buildVars, sortVars, sorted_files,
                   rerunVars, outerVars>>

\* lines 262-276: the blocks written for one file of the order
Blocks(f, status) ==
    IF status = "unreadable"
    THEN << <<"start", f>>, <<"error", f>> >>
    ELSE << <<"start", f>>, <<"content", f>>, <<"end", f>> >>

\* lines 260-276: the next file of the order
WriteFile ==
    /\ pc = "write_files"
    /\ wi <= Len(sorted_files)
    /\ outfile' = outfile \o Blocks(sorted_files[wi], fs[sorted_files[wi]].status)
    /\ log' = IF fs[sorted_files[wi]].status = "unreadable"
              THEN log \o <<"adding_file", "error_reading">>
              ELSE Append(log, "adding_file")
    /\ wi' = wi + 1
    /\ UNCHANGED <<projectVars, pc, ret, project_root, graph, buildVars, sortVars,
                   sorted_files, outDir, outFile, ioFault, rerunVars, outerVars>>

\* lines 277, 365-366
WriteClose ==
    /\ pc = "write_files"
    /\ wi > Len(sorted_files)
    /\ log' = log \o <<"created", "finished">>
    /\ ret' = "True"
    /\ pc' = "done"
    /\ UNCHANGED <<projectVars, project_root, graph, buildVars, sortVars, sorted_files,
                   writeVars, ioFault, rerunVars, outerVars>>

\* ------------------------------------------------------------- specifications
Terminated == pc \in {"done", "raised"}

Next ==
    \/ CheckEntry
    \/ LocateRoot
    \/ BuildStart
    \/ BuildSkipVisited
    \/ BuildProcess
    \/ BuildDone
    \/ SortStart
    \/ SortNextKey
    \/ VisitNeighbor
    \/ VisitFinish
    \/ SortReturn
    \/ ReportOrder
    \/ WriteOpen
    \/ WriteFile
    \/ WriteClose

Spec == Init /\ [][Next]_vars

\* the interpreter runs the single thread of a started run to its end
FairSpec == Init /\ [][Next]_vars /\ WF_vars(Next)

\* A further run over the same project: the locals of run_bundling_process
\* start afresh, the files and the output on disk stay as they are.
Rerun ==
    /\ Terminated
    /\ run < MaxRuns
    /\ run' = run + 1
    /\ prevOrder' = sorted_files
    /\ pc' = "start"
    /\ ret' = "none"
    /\ log' = <<>>
    /\ project_root' = "none"
    /\ graph' = <<>>
    /\ all_files' = {}
    /\ queue' = <<>>
    /\ bvisited' = {}
    /\ result' = <<>>
    /\ visited' = {}
    /\ temp_visited' = {}
    /\ edges_in_cycles' = <<>>
    /\ stack' = <<>>
    /\ ki' = 1
    /\ extracted' = [p \in Paths |-> 0]
    /\ sorted_files' = <<>>
    /\ wi' = 1
    /\ ioFault' = {}
    /\ UNCHANGED <<projectVars, outfile, outDir, outFile, outerVars>>

NextRerun == Next \/ Rerun

\* the pipeline around a resolver that may return any path
InitAnyResolver ==
    /\ OuterIdle
    /\ fs = [p \in Paths |-> NoFile]
    /\ entryExists = TRUE
    /\ resolver = "any"
    /\ pc = "start"
    /\ ret = "none"
    /\ log = <<>>
    /\ project_root = "none"
    /\ graph = <<>>
    /\ all_files = {}
    /\ queue = <<>>
    /\ bvisited = {}
    /\ result = <<>>
    /\ visited = {}
    /\ temp_visited = {}
    /\ edges_in_cycles = <<>>
    /\ stack = <<>>
    /\ ki = 1
    /\ extracted = [p \in Paths |-> 0]
    /\ sorted_files = <<>>
    /\ outfile = <<>>
    /\ outDir = FALSE
    /\ outFile = FALSE
    /\ wi = 1
    /\ ioFault = {}
    /\ run = 1
    /\ prevOrder = <<>>

NextAnyResolver == Next \/ BuildSkipOutside

SpecAnyResolver == InitAnyResolver /\ [][NextAnyResolver]_vars

SpecRerun == Init /\ [][NextRerun]_vars

\* topological_sort and the reordering after it on any graph: the keys are
\* 1..k in insertion order (any other dict is a renaming of one of these),
\* the dependency sets are arbitrary and may name nodes that are no key.
RECURSIVE Graphs(_, _)
Graphs(k, budget) ==
    IF k = 0 THEN {<<>>}
    ELSE UNION {{Append(g, [file |-> k, deps |-> d]) : g \in Graphs(k - 1, budget - Len(d))}
                 : d \in DistinctSeqs(1..SortNodes, budget)}

SortInit ==
    /\ OuterIdle
    /\ fs = [p \in Paths |-> NoFile]
    /\ entryExists = TRUE
    /\ resolver = "shipped"
    /\ pc = "sort_start"
    /\ ret = "none"
    /\ log = <<>>
    /\ project_root = "root"
    /\ graph \in UNION {Graphs(k, MaxSize) : k \in 0..SortNodes}
    /\ all_files = KeySet(graph)
    /\ queue = <<>>
    /\ bvisited = KeySet(graph)
    /\ result = <<>>
    /\ visited = {}
    /\ temp_visited = {}
    /\ edges_in_cycles = <<>>
    /\ stack = <<>>
    /\ ki = 1
    /\ extracted = [p \in Paths |-> 0]
    /\ sorted_files = <<>>
    /\ outfile = <<>>
    /\ outDir = FALSE
    /\ outFile = FALSE
    /\ wi = 1
    /\ ioFault = {}
    /\ run = 1
    /\ prevOrder = <<>>

SortNext ==
    \/ SortStart
    \/ SortNextKey
    \/ VisitNeighbor
    \/ VisitFinish
    \/ SortReturn
    \/ ReportOrder

SpecSort == SortInit /\ [][SortNext]_vars

\* the locals of run_bundling_process before a run, for the specifications
\* of the parts around it
PipelineIdle ==
    /\ fs = [p \in Paths |-> NoFile]
    /\ entryExists = TRUE
    /\ resolver = "shipped"
    /\ pc = "start"
    /\ ret = "none"
    /\ log = <<>>
    /\ project_root = "none"
    /\ graph = <<>>
    /\ all_files = {}
    /\ queue = <<>>
    /\ bvisited = {}
    /\ result = <<>>
    /\ visited = {}
    /\ temp_visited = {}
    /\ edges_in_cycles = <<>>
    /\ stack = <<>>
    /\ ki = 1
    /\ extracted = [p \in Paths |-> 0]
    /\ sorted_files = <<>>
    /\ outfile = <<>>
    /\ outDir = FALSE
    /\ outFile = FALSE
    /\ wi = 1
    /\ ioFault = {}
    /\ run = 1
    /\ prevOrder = <<>>

\* ------------------------------------------- ImportAnalyzer._resolve_module
\* One call of _resolve_module(module_name, level) for an import statement of
\* a file.  A directory is named by its depth below the filesystem root (0):
\* rootDir is project_root, fileDir is file_path.parent, and the directories
\* the call looks at are ancestors of fileDir.  The specifier says
\*   named        module_name is not empty (`from . import x` has none)
\*   runtime      what importlib.util.find_spec(module_name) yields
\*   modAt        the directories d for which the candidate
\*                d.with_suffix('.py') (no name) or d/<name>.py is a file
\*   pkgAt        the directories d for which d/__init__.py (no name) or
\*                d/<name>/__init__.py is a file
\*   linkOutside  the candidate found is a symlink whose target lies outside
\*                project_root
Max(a, b) == IF a > b THEN a ELSE b

NotLocal == [res |-> "NotLocal", dir |-> 0, kind |-> "none"]
Raises == [res |-> "raises", dir |-> 0, kind |-> "none"]

\* lines 81-85: Path.parent of the filesystem root is the root itself
BaseDir(q) == IF q.level > 0 THEN Max(0, q.fileDir - (q.level - 1)) ELSE q.fileDir

\* lines 88-101: the directory path_to_try is built from
TryDir(q) == IF q.level > 0 THEN BaseDir(q) ELSE q.rootDir

\* lines 60-78: find_spec is asked for module_name whatever the level is
RuntimeSaysExternal(q) == q.runtime \in {"builtin", "external"}

\* Path.with_suffix raises ValueError on a path without a name (lines 105, 118)
SuffixRaises(q, d) == ~q.named /\ d = 0

\* possible_module_path.is_relative_to(project_root), lines 109 and 120: with
\* no module name the candidate is a sibling of directory d
ModuleUnderRoot(q, d) == IF q.named THEN d >= q.rootDir ELSE d - 1 >= q.rootDir

\* lines 110-125: resolve() follows symlinks, and relative_to in the log line
\* raises ValueError for a target outside the root
Final(q, d, kind) ==
    IF q.linkOutside THEN Raises ELSE [res |-> "Local", dir |-> d, kind |-> kind]

\* lines 116-128: the second attempt, from project_root
RootFallback(q) ==
    IF SuffixRaises(q, q.rootDir) THEN Raises
    ELSE IF q.rootDir \in q.modAt /\ ModuleUnderRoot(q, q.rootDir)
    THEN Final(q, q.rootDir, "module")
    ELSE IF q.rootDir \in q.pkgAt THEN Final(q, q.rootDir, "package")
    ELSE NotLocal

\* _resolve_module, lines 53-130
ResolveModule(q) ==
    IF RuntimeSaysExternal(q) THEN NotLocal
    ELSE LET d == TryDir(q) IN
         IF SuffixRaises(q, d) THEN Raises
         ELSE IF d \in q.modAt /\ ModuleUnderRoot(q, d) THEN Final(q, d, "module")
         ELSE IF d \in q.pkgAt /\ d >= q.rootDir THEN Final(q, d, "package")
         ELSE RootFallback(q)

Runtimes == {"not_found", "builtin", "external", "in_project", "error"}

\* any import statement of any file, in any project around it
ResolveInit ==
    /\ PipelineIdle
    /\ RootIdle
    /\ GuiIdle
    /\ \E named \in BOOLEAN, level \in 0..MaxLevel, rootDir \in 0..MaxDepth,
          fileDir \in 0..MaxDepth, runtime \in Runtimes, linkOutside \in BOOLEAN :
         /\ rootDir <= fileDir
         /\ named \/ (level > 0 /\ runtime = "not_found")
         /\ LET q0 == [NoSpecifier EXCEPT !.named = named, !.level = level,
                           !.rootDir = rootDir, !.fileDir = fileDir, !.runtime = runtime,
                           !.linkOutside = linkOutside]
            IN \E modAt \in SUBSET {TryDir(q0), rootDir}, pkgAt \in SUBSET {TryDir(q0), rootDir} :
                 /\ linkOutside => modAt \cup pkgAt # {}
                 /\ specifier = [q0 EXCEPT !.modAt = modAt, !.pkgAt = pkgAt]
    /\ resolved = [res |-> "pending", dir |-> 0, kind |-> "none"]

\* visit_Import / visit_ImportFrom call _resolve_module (lines 135, 142)
CallResolve ==
    /\ resolved.res = "pending"
    /\ resolved' = ResolveModule(specifier)
    /\ UNCHANGED <<pipelineVars, specifier, rootVars, guiVars>>

\* ------------------------------------------------------------ find_project_root
\* One call of find_project_root(start_path) for an existing file.  The
\* directories are the ancestors of the file, named by their depth below the
\* filesystem root (0); startDir is the file's own directory.
RootInit ==
    /\ PipelineIdle
    /\ ResolveIdle
    /\ GuiIdle
    /\ startDir \in 0..MaxDepth
    /\ markerDirs \in SUBSET (0..startDir)
    /\ faultDir \in (0 - 1)..startDir
    /\ current_dir = startDir
    /\ found_root = [state |-> "walking", dir |-> 0]

\* lines 24-25: one of the markers exists in directory d
HasMarker(d) == d \in markerDirs

\* line 25: Path.exists() passes on every OSError but "no such file"
ProbeRaises(d) == d = faultDir

\* line 25 raises; nothing in find_project_root catches it
RootRaise ==
    /\ found_root.state = "walking"
    /\ ProbeRaises(current_dir)
    /\ found_root' = [state |-> "raised", dir |-> 0]
    /\ UNCHANGED <<pipelineVars, resolveVars, guiVars, startDir, markerDirs, faultDir,
                   current_dir>>

\* lines 24-26
RootFound ==
    /\ found_root.state = "walking"
    /\ ~ProbeRaises(current_dir)
    /\ HasMarker(current_dir)
    /\ found_root' = [state |-> "returned", dir |-> current_dir]
    /\ UNCHANGED <<pipelineVars, resolveVars, guiVars, startDir, markerDirs, faultDir,
                   current_dir>>

\* lines 29-32: at the filesystem root, fall back to start_path.parent
RootNoMarker ==
    /\ found_root.state = "walking"
    /\ ~ProbeRaises(current_dir)
    /\ ~HasMarker(current_dir)
    /\ current_dir = 0
    /\ found_root' = [state |-> "returned", dir |-> startDir]
    /\ UNCHANGED <<pipelineVars, resolveVars, guiVars, startDir, markerDirs, faultDir,
                   current_dir>>

\* line 37
RootUp ==
    /\ found_root.state = "walking"
    /\ ~ProbeRaises(current_dir)
    /\ ~HasMarker(current_dir)
    /\ current_dir > 0
    /\ current_dir' = current_dir - 1
    /\ UNCHANGED <<pipelineVars, resolveVars, guiVars, startDir, markerDirs, faultDir,
                   found_root>>

RootNext ==
    \/ RootRaise
    \/ RootFound
    \/ RootNoMarker
    \/ RootUp

SpecRoot == RootInit /\ [][RootNext]_vars

\* ------------------------------------------------------------ CodeBundlerApp
\* The window of main_gui.py: the UI thread runs start_generation (the
\* Generate button) and check_queue (a timer callback), a worker thread per
\* generation runs thread_target.  A message is the tuple put on
\* message_queue.  The orchestrator is taken by its outcomes: the lines it
\* logs, then True, False or an exception.
GuiInit ==
    /\ PipelineIdle
    /\ ResolveIdle
    /\ RootIdle
    /\ is_processing = FALSE
    /\ message_queue = <<>>
    /\ worker = [k \in 1..MaxGenerations |-> "unstarted"]
    /\ logsLeft = [k \in 1..MaxGenerations |-> 0]
    /\ started = 0
    /\ timer = TRUE

NeverBusy == FALSE

\* line 145
Busy == is_processing

\* start_generation, lines 143-182
StartGeneration ==
    /\ started < MaxGenerations
    /\ \E pathsChosen \in BOOLEAN, lines \in 1..MaxLog :
         IF Busy \/ ~pathsChosen
         THEN UNCHANGED <<is_processing, worker, logsLeft, started>>
         ELSE /\ is_processing' = TRUE
              /\ started' = started + 1
              /\ worker' = [worker EXCEPT ![started + 1] = "running"]
              /\ logsLeft' = [logsLeft EXCEPT ![started + 1] = lines]
    /\ UNCHANGED <<pipelineVars, resolveVars, rootVars, message_queue, timer>>

\* line 168: the orchestrator calls progress_callback
WorkerLog(k) ==
    /\ worker[k] = "running"
    /\ logsLeft[k] > 0
    /\ message_queue' = Append(message_queue, <<"LOG", "line">>)
    /\ logsLeft' = [logsLeft EXCEPT ![k] = @ - 1]
    /\ UNCHANGED <<pipelineVars, resolveVars, rootVars, is_processing, worker, started, timer>>

\* lines 165-174: run_bundling_process returns True or False, or raises
WorkerEnd(k) ==
    /\ worker[k] = "running"
    /\ logsLeft[k] = 0
    /\ \E outcome \in {"returned_true", "returned_false", "raised"} :
         worker' = [worker EXCEPT ![k] = outcome]
    /\ UNCHANGED <<pipelineVars, resolveVars, rootVars, is_processing, message_queue,
                   logsLeft, started, timer>>

\* lines 170-173
WorkerPostDone(k) ==
    /\ worker[k] \in {"returned_true", "returned_false"}
    /\ message_queue' = Append(message_queue,
           <<"DONE", IF worker[k] = "returned_true" THEN "SUCCESS" ELSE "FAILURE">>)
    /\ worker' = [worker EXCEPT ![k] = "finished"]
    /\ UNCHANGED <<pipelineVars, resolveVars, rootVars, is_processing, logsLeft, started, timer>>

\* line 177: a tuple of three
WorkerPostTrace(k) ==
    /\ worker[k] = "raised"
    /\ message_queue' = Append(message_queue, <<"LOG", "trace", "ERROR">>)
    /\ worker' = [worker EXCEPT ![k] = "raised_logged"]
    /\ UNCHANGED <<pipelineVars, resolveVars, rootVars, is_processing, logsLeft, started, timer>>

\* line 178
WorkerPostCritical(k) ==
    /\ worker[k] = "raised_logged"
    /\ message_queue' = Append(message_queue, <<"DONE", "CRITICAL_ERROR">>)
    /\ worker' = [worker EXCEPT ![k] = "finished"]
    /\ UNCHANGED <<pipelineVars, resolveVars, rootVars, is_processing, logsLeft, started, timer>>

WorkerStep(k) ==
    \/ WorkerLog(k)
    \/ WorkerEnd(k)
    \/ WorkerPostDone(k)
    \/ WorkerPostTrace(k)
    \/ WorkerPostCritical(k)

RECURSIVE Drain(_, _)
\* lines 186-212: the loop of check_queue over the queue q, with
\* is_processing = p.  Line 188 unpacks the message into two names: a tuple
\* of another length raises ValueError after get_nowait has removed it, and
\* only queue.Empty is caught.
Drain(q, p) ==
    IF q = <<>> THEN [queue |-> q, is_processing |-> p, raised |-> FALSE]
    ELSE IF Len(Head(q)) # 2 THEN [queue |-> Tail(q), is_processing |-> p, raised |-> TRUE]
    ELSE IF Head(q)[1] = "DONE" THEN Drain(Tail(q), FALSE)
    ELSE Drain(Tail(q), p)

\* check_queue, lines 184-215, run by the timer; line 215 schedules the next
\* call unless the loop raised
CheckQueue ==
    /\ timer
    /\ LET end == Drain(message_queue, is_processing) IN
       /\ message_queue' = end.queue
       /\ is_processing' = end.is_processing
       /\ timer' = ~end.raised
    /\ UNCHANGED <<pipelineVars, resolveVars, rootVars, worker, logsLeft, started>>

GuiNext ==
    \/ StartGeneration
    \/ \E k \in 1..MaxGenerations : WorkerStep(k)
    \/ CheckQueue

SpecGui == GuiInit /\ [][GuiNext]_vars

\* the interpreter runs every started thread on, and Tk runs a pending timer
FairSpecGui ==
    /\ GuiInit
    /\ [][GuiNext]_vars
    /\ WF_vars(CheckQueue)
    /\ \A k \in 1..MaxGenerations : WF_vars(WorkerStep(k))

ResolveNext == CallResolve

SpecResolve == ResolveInit /\ [][ResolveNext]_vars

\* ------------------------------------------------------------------- claims
Reported == SeqToSet(edges_in_cycles)

\* line 343 was executed: sorted_files is the final bundle order
OrderFinal == sorted_files # <<>>

\* the simple cycles of g, each as the sequence of its nodes
Cycles(g) ==
    {c \in DistinctSeqs(KeySet(g), Len(g)) :
        /\ c # <<>>
        /\ \A i \in 1..Len(c) : c[(i % Len(c)) + 1] \in DepSet(g, c[i])}

\* C1: in the list topological_sort returns, for every graph, a dependency
\* v of u comes before u unless the edge (u, v) is among the reported cycle
\* edges.
C1_DependencyBeforeDependent ==
    pc = "order" =>
        \A u \in KeySet(graph) : \A v \in DepSet(graph, u) :
            <<u, v>> \notin Reported => Before(result, v, u)

\* C1 witness: a sorted graph of three keys with a reported cycle and an
\* unreported edge whose target was placed first, its source being a key
\* that the driver loop started from before the target was visited.
C1_Witness ==
    /\ pc = "order"
    /\ Len(graph) = 3
    /\ edges_in_cycles # <<>>
    /\ \E u \in KeySet(graph) : \E v \in KeySet(graph) :
         /\ v \in DepSet(graph, u)
         /\ <<u, v>> \notin Reported
         /\ u < v
         /\ Before(result, v, u)

\* C2: once the final bundle order is fixed, the entry file is its last
\* element, wherever the sort placed it.
C2_EntryLast ==
    OrderFinal => sorted_files[Len(sorted_files)] = main_path

\* C2 witness: the sort did not place the entry file last, and the final
\* order ends with it.
C2_Witness ==
    /\ OrderFinal
    /\ main_path \in SeqToSet(result)
    /\ result[Len(result)] # main_path
    /\ sorted_files[Len(sorted_files)] = main_path

\* C3: the final bundle order holds every discovered file exactly once and
\* no path twice.
C3_EveryFileOnce ==
    OrderFinal =>
        /\ \A f \in all_files : Count(sorted_files, f) = 1
        /\ \A i, j \in 1..Len(sorted_files) : sorted_files[i] = sorted_files[j] => i = j

\* C3 witness: a diamond (the entry imports two files that import the same
\* fourth file) was bundled.
C3_Witness ==
    /\ pc = "done"
    /\ ret = "True"
    /\ Cardinality(all_files) = 4
    /\ \E b, c, d \in all_files :
         /\ b # c
         /\ {b, c} \subseteq DepSet(graph, main_path)
         /\ d \in DepSet(graph, b) \cap DepSet(graph, c)
         /\ Before(sorted_files, d, b)
         /\ Before(sorted_files, d, c)

\* no node has two open calls of visit
NoReentry ==
    \A i, j \in 1..Len(stack) : stack[i].node = stack[j].node => i = j

\* C4: the depth-first traversal never enters a node that is in progress,
\* and every run ends (returns, or raises out of run_bundling_process).
C4_RunTerminates == []NoReentry /\ <>Terminated

\* C4 witness: a run over two files that import each other, one of which
\* imports itself too, has returned success.
C4_Witness ==
    /\ pc = "done"
    /\ ret = "True"
    /\ \E a, b \in all_files :
         /\ a # b
         /\ b \in DepSet(graph, a)
         /\ a \in DepSet(graph, b)
         /\ a \in DepSet(graph, a)

\* C5: for every cycle of the graph, one of the cycle's own edges is in the
\* list of cycle edges topological_sort returns.
C5_EveryCycleReported ==
    pc = "order" =>
        \A c \in Cycles(graph) :
            \E i \in 1..Len(c) : <<c[i], c[(i % Len(c)) + 1]>> \in Reported

\* C5 witness: a sorted graph with a cycle through three nodes and a
\* mutual cycle, each with a reported edge.
C5_Witness ==
    /\ pc = "order"
    /\ \E c \in Cycles(graph) : Len(c) = 3
    /\ \E c \in Cycles(graph) : Len(c) = 2
    /\ edges_in_cycles # <<>>

\* C6: a second run over the unchanged project fixes the same final file
\* order as the run before it.
C6_SameOrderEveryRun ==
    (pc = "done" /\ ret = "True" /\ prevOrder # <<>>) => sorted_files = prevOrder

C8_MissingEntryFails ==
    ~entryExists =>
        /\ pc \in {"start", "done"}
        /\ pc = "done" => ret = "False"
        /\ project_root = "none"
        /\ graph = <<>> /\ queue = <<>> /\ all_files = {}
        /\ result = <<>> /\ sorted_files = <<>>
        /\ ~outDir /\ ~outFile /\ outfile = <<>>

\* C8 witness: a run on a missing entry file has returned False.
C8_Witness ==
    /\ ~entryExists
    /\ pc = "done"
    /\ ret = "False"
    /\ "error_main_not_found" \in SeqToSet(log)

ErrorLogged ==
    \E i \in 1..Len(log) :
        log[i] \in {"error_sort", "error_creating_combined", "error_building_graph"}

\* C9: no exception leaves run_bundling_process; a run in which root
\* location, graph building, sorting or writing raised has logged the error
\* and returned False.
C9_NoExceptionEscapes ==
    /\ pc # "raised"
    /\ (pc = "done" /\ ioFault # {}) => (ret = "False" /\ ErrorLogged)

\* C10: a run on an existing entry file that met no fault of the file
\* system in root location or in creating the output returns True, whatever
\* the files hold.
C10_SuccessUnlessFatal ==
    (Terminated /\ entryExists /\ ioFault = {}) => ret = "True"

Resolved == resolved.res \in {"NotLocal", "Local", "raises"}

\* C11: a relative import whose level is larger than the number of
\* directories above the importing file resolves to NotLocal: the call does
\* not raise and yields no dependency, whatever files exist under the
\* project root.
C11_ExcessLevelNotLocal ==
    (Resolved /\ specifier.level > 0 /\ specifier.level - 1 > specifier.fileDir)
        => resolved = NotLocal

\* C14: what the runtime's module search says about the name decides nothing
\* for a relative import: one that names an existing sibling file under the
\* project root resolves to that file.
C14_RelativeIgnoresRuntime ==
    (/\ Resolved
     /\ specifier.level = 1
     /\ specifier.named
     /\ specifier.fileDir \in specifier.modAt
     /\ ~specifier.linkOutside)
        => resolved = [res |-> "Local", dir |-> specifier.fileDir, kind |-> "module"]

\* the nearest ancestor of the entry file that holds a marker, or the file's
\* own directory when none does
NearestMarked ==
    IF markerDirs = {} THEN startDir
    ELSE CHOOSE d \in markerDirs : \A e \in markerDirs : e <= d

\* C12: find_project_root never fails, and the directory it returns is the
\* nearest ancestor of the entry file holding a marker, the file's own
\* directory when there is none; it contains the entry file.
C12_RootFound ==
    /\ found_root.state # "raised"
    /\ found_root.state = "returned" =>
           /\ found_root.dir = NearestMarked
           /\ found_root.dir <= startDir

\* C13: in a finished bundle every opening delimiter is followed by the
\* content and the closing delimiter of the same file, a file that could not
\* be read is represented by an error block alone, and every file of the
\* final order has its block.
C13_ErrorBlockInPlace ==
    (pc = "done" /\ ret = "True") =>
        /\ \A i \in 1..Len(outfile) :
               outfile[i][1] = "start" =>
                   /\ i + 2 <= Len(outfile)
                   /\ outfile[i + 1] = <<"content", outfile[i][2]>>
                   /\ outfile[i + 2] = <<"end", outfile[i][2]>>
        /\ \A k \in 1..Len(sorted_files) :
               \E i \in 1..Len(outfile) :
                   outfile[i] = <<IF fs[sorted_files[k]].status = "unreadable"
                                  THEN "error" ELSE "content", sorted_files[k]>>

RECURSIVE Reachable(_, _)
\* the files reached from the set S along the dependencies recorded in g
Reachable(g, S) ==
    LET next == S \cup UNION {DepSet(g, x) : x \in S}
    IN  IF next = S THEN S ELSE Reachable(g, next)

\* C15: find_imports never runs twice for a path, and when
\* build_dependency_graph returns it has run once for exactly the files
\* reachable from the entry file, which are the keys of the graph and the
\* members of all_files.
C15_ExtractedOnce ==
    /\ \A p \in Paths : extracted[p] <= 1
    /\ pc = "sort_start" =>
           /\ all_files = KeySet(graph)
           /\ all_files = Reachable(graph, {main_path})
           /\ \A p \in Paths : extracted[p] = (IF p \in all_files THEN 1 ELSE 0)

\* C15 witness: the graph of a diamond was built; its bottom file, enqueued
\* by both files that import it, was analysed once.
C15_Witness ==
    /\ pc = "sort_start"
    /\ \E b, c, d \in all_files \ {main_path} :
         /\ b # c /\ d # b /\ d # c
         /\ {b, c} \subseteq DepSet(graph, main_path)
         /\ d \notin DepSet(graph, main_path)
         /\ d \in DepSet(graph, b) \cap DepSet(graph, c)
         /\ extracted[d] = 1

\* C16: every reported cycle edge (from, to) is a back edge: `to` is a
\* dependency of `from`, and `from` is reached from `to`, so that both lie on
\* one cycle (and a graph without a cycle has no reported edge).
C16_OnlyBackEdges ==
    \A e \in Reported :
        /\ e[2] \in DepSet(graph, e[1])
        /\ e[1] \in Reachable(graph, {e[2]})

\* C17: every generation that was started ends with is_processing reset to
\* False, whether the orchestrator returned True, returned False or raised,
\* and the timer that polls the queue stays scheduled.
C17_GenerationEnds == (is_processing ~> ~is_processing) /\ []timer

Running == {k \in 1..MaxGenerations : worker[k] = "running"}

\* C18: at most one thread is inside run_bundling_process; while
\* is_processing is False every thread that was started has returned from
\* the orchestrator and posted its DONE message, and a DONE message is the
\* last message in the queue.
C18_OneWorker ==
    /\ Cardinality(Running) <= 1
    /\ ~is_processing => \A k \in 1..MaxGenerations : worker[k] \in {"unstarted", "finished"}
    /\ \A i \in 1..Len(message_queue) : message_queue[i][1] = "DONE" => i = Len(message_queue)

\* C18 witness: a second generation is running, started after the first
\* had posted DONE and check_queue had reset is_processing.
C18_Witness ==
    /\ started = 2
    /\ worker[1] = "finished"
    /\ worker[2] = "running"
    /\ is_processing
    /\ message_queue # <<>>

====
